---- MODULE Spec2Model ----
(***************************************************************************)
(* openshift-state-metrics: the metric family generators of the four       *)
(* resource types, their filtering, header extraction and composition      *)
(* (pkg/collectors/builder.go), the metrics store the composed generator   *)
(* is handed to, the Builder that wires stores and reflectors, main, and   *)
(* the deployment config collector that lists its store on every scrape.   *)
(*                                                                         *)
(* Numeric sample values (Go float64) are held in thousandths, so that     *)
(* MilliValue()/1000 stays an integer: Float64(n) is n * 1000.             *)
(***************************************************************************)
EXTENDS Integers, Sequences, FiniteSets, TLC

VARIABLES
    resource,        \* the resource type the store under study was built for
    whiteBlackList,  \* Builder.whiteBlackList: [isWhiteList, list]
    headers,         \* MetricsStore.headers (familyHeaders)
    families,        \* the filtered family generators the store composes
    metrics,         \* MetricsStore.metrics: identity -> rendered entry
    panicked,        \* an unrecovered Go panic has terminated the process
    lastOp,          \* history: the store operation applied last
    listed,          \* the text the last List() call returned
    tasks,           \* synchronizer tasks racing on the store
    builder,         \* the Builder: enabledCollectors, namespaces, whiteBlackList
    bpc,             \* where Builder.Build stands
    idx,             \* Build's position in enabledCollectors
    nsIdx,           \* reflectorPerNamespace's position in namespaces
    stores,          \* the stores Build has constructed, by resource type
    reflectors,      \* the reflector goroutines started: <<resource type, namespace>>
    collectors,      \* the collectors Build has appended to its result
    registered,      \* the collectors handed to the scrape path
    opts,            \* main: the parsed options
    mpc,             \* where main stands
    informers,       \* main: the informers run: <<collector, namespace>>
    registry,        \* main: the collectors registered with the metrics registry
    serving,         \* main: the servers started
    invoked,         \* history: the objects the last step called the composed generator with
    ctx,             \* the Builder's context: "live" until it is cancelled, then "done"
    terminated,      \* the reflector goroutines whose Run has returned
    ScrapeErrorTotalMetric,    \* the counter of resource "deploymentconfig"
    ResourcesPerScrapeMetric,  \* the observations made for resource "deploymentconfig"
    ch,              \* the metrics the last Collect has sent on its channel
    ds               \* history: what store.List() returned to the last Collect

storeVars == <<resource, whiteBlackList, headers, families, metrics, panicked,
               lastOp, listed, tasks, invoked>>

syncVars == <<ctx, terminated>>

buildVars == <<builder, bpc, idx, nsIdx, stores, reflectors, collectors, registered>>

collectVars == <<ScrapeErrorTotalMetric, ResourcesPerScrapeMetric, ch, ds>>

mainVars == <<opts, mpc, informers, registry, serving, collectVars>>

vars == <<storeVars, buildVars, mainVars, syncVars>>

----------------------------------------------------------------------------
(* Bounds of the model. *)

\* longest object list handed to Replace
MaxReplace == 2

\* number of scrapes followed
MaxScrapes == 3

----------------------------------------------------------------------------
(* Values. *)

Thousand == 1000

\* float64(n), in thousandths
Float64(n) == n * Thousand

\* metav1.Time: zero is the unset value; unix is read only through Unix()
ZeroTime == [zero |-> TRUE, unix |-> 0]
TimeAt(n) == [zero |-> FALSE, unix |-> n]
\* an IsZero that takes every time for set
IsZeroNever(t) == FALSE

IsZero(t) == t.zero
Unix(t) == t.unix

\* a *metav1.Time that is nil: the field is unset
NilTime == [nil |-> TRUE, zero |-> TRUE, unix |-> 0]
IsNil(t) == "nil" \in DOMAIN t

\* a boolFloat64 with the two values exchanged
boolFloat64Flipped(b) == IF b THEN Float64(0) ELSE Float64(1)

\* boolFloat64
boolFloat64(b) == IF b THEN Float64(1) ELSE Float64(0)

\* intstr.IntOrString as used by RollingParams: a nil pointer, an int, or a string
NilIntOrString == [Type |-> "Nil", IntVal |-> 0, StrVal |-> ""]
FromInt(n) == [Type |-> "Int", IntVal |-> n, StrVal |-> ""]
FromString(s) == [Type |-> "String", IntVal |-> 0, StrVal |-> s]

\* strconv.Atoi of the string with "%" removed, on the strings the model uses
Atoi(s) ==
    CASE s = "25%" -> [ok |-> TRUE, v |-> 25]
      [] s = "50%" -> [ok |-> TRUE, v |-> 50]
      [] OTHER -> [ok |-> FALSE, v |-> 0]

\* math.Ceil(value * total / 100) for non-negative operands
CeilPercent(value, total) == (value * total + 99) \div 100

\* intstr.GetValueFromIntOrPercent(v, total, true): [err, value]
GetValueFromIntOrPercent(v, total) ==
    CASE v.Type = "Nil" -> [err |-> TRUE, value |-> 0]
      [] v.Type = "Int" -> [err |-> FALSE, value |-> v.IntVal]
      [] OTHER ->
           IF Atoi(v.StrVal).ok
           THEN [err |-> FALSE, value |-> CeilPercent(Atoi(v.StrVal).v, total)]
           ELSE [err |-> TRUE, value |-> 0]

\* the enumerations of a finite set: the orders a Go map range may visit it in
RECURSIVE Perms(_)
Perms(S) ==
    IF S = {} THEN {<<>>}
    ELSE UNION {{<<x>> \o p : p \in Perms(S \ {x})} : x \in S}

RECURSIVE Flatten(_)
Flatten(ss) == IF ss = <<>> THEN <<>> ELSE Head(ss) \o Flatten(Tail(ss))

Range(s) == {s[i] : i \in DOMAIN s}

\* the sequences over S of length at most n
SeqsUpTo(S, n) == UNION {[1..k -> S] : k \in 0..n}

----------------------------------------------------------------------------
(* Tracked objects. *)

NoRolling == [set |-> FALSE, MaxUnavailable |-> NilIntOrString, MaxSurge |-> NilIntOrString]
Rolling(u, s) == [set |-> TRUE, MaxUnavailable |-> u, MaxSurge |-> s]

DeploymentConfig(ns, name, created, gen, replicas, paused, rolling) ==
    [Kind |-> "DeploymentConfig", Namespace |-> ns, Name |-> name,
     CreationTimestamp |-> created, Generation |-> gen,
     StatusReplicas |-> replicas, AvailableReplicas |-> replicas,
     UnavailableReplicas |-> 0, UpdatedReplicas |-> replicas,
     ObservedGeneration |-> gen, SpecReplicas |-> replicas,
     Paused |-> paused, RollingParams |-> rolling]

BuildConfig(ns, name, created, gen, last) ==
    [Kind |-> "BuildConfig", Namespace |-> ns, Name |-> name,
     CreationTimestamp |-> created, Generation |-> gen, LastVersion |-> last]

\* StartTimestamp and CompletionTimestamp are *metav1.Time: unset is NilTime
Build(ns, name, created, gen, phase, started, completed, duration) ==
    [Kind |-> "Build", Namespace |-> ns, Name |-> name,
     CreationTimestamp |-> created, Generation |-> gen, Phase |-> phase,
     StartTimestamp |-> started, CompletionTimestamp |-> completed,
     Duration |-> duration]

\* Hard and Used are ResourceList maps: resource name -> quantity in milli-units
ClusterResourceQuota(name, created, hard, used) ==
    [Kind |-> "ClusterResourceQuota", Namespace |-> "", Name |-> name,
     CreationTimestamp |-> created, Hard |-> hard, Used |-> used]

NoResources == [r \in {} |-> 0]

dcV1 == DeploymentConfig("ns1", "a", TimeAt(15), 1, 4, FALSE, NoRolling)
dcV2 == DeploymentConfig("ns1", "a", ZeroTime, 2, 3, TRUE,
                         Rolling(FromString("25%"), FromInt(1)))
dcBad == DeploymentConfig("ns2", "b", TimeAt(16), 1, 2, FALSE,
                          Rolling(FromString("abc"), FromInt(1)))

bcV1 == BuildConfig("ns1", "a", TimeAt(15), 1, 1)
bcV2 == BuildConfig("ns2", "b", ZeroTime, 2, 7)

buildV1 == Build("ns1", "a", TimeAt(15), 1, "Running", TimeAt(20), NilTime, 0)
buildV2 == Build("ns1", "a", TimeAt(15), 2, "Complete", TimeAt(20), TimeAt(30), 10)
\* a build the server has not touched yet: no creation time, no phase, no status times
buildNew == Build("ns2", "b", ZeroTime, 1, "", NilTime, NilTime, 0)

quotaV1 == ClusterResourceQuota("a", TimeAt(15),
               [r \in {"cpu", "memory"} |-> IF r = "cpu" THEN 2000 ELSE 1500],
               [r \in {"cpu"} |-> 500])
quotaV2 == ClusterResourceQuota("a", ZeroTime, [r \in {"cpu"} |-> 2500], NoResources)

Objects == {dcV1, dcV2, dcBad, bcV1, bcV2, buildV1, buildV2, buildNew, quotaV1, quotaV2}

\* TrackedObject identity: (namespace-or-none, name)
Id(o) == <<o.Namespace, o.Name>>

\* a fixed enumeration of the identities: the store's iteration order
IdOrder == <<(<<"", "a">>), (<<"ns1", "a">>), (<<"ns2", "b">>)>>

----------------------------------------------------------------------------
(* metrics.Metric, metrics.Family and the outcome of a generator call. *)

Metric(name, keys, values, value) ==
    [Name |-> name, LabelKeys |-> keys, LabelValues |-> values, Value |-> value]

\* a call that returned a family / a call that panicked
Ok(f) == [ok |-> TRUE, family |-> f]
Panic == [ok |-> FALSE, family |-> <<>>]

FamilyGenerator(name, help, gen) ==
    [Name |-> name, Type |-> "gauge", Help |-> help, Gen |-> gen]

\* the loop of the wrap*Func functions: default labels go in front
WithDefaultLabels(out, keys, values) ==
    IF out.ok
    THEN Ok([i \in DOMAIN out.family |->
               [out.family[i] EXCEPT !.LabelKeys = keys \o @,
                                     !.LabelValues = values \o @]])
    ELSE out

----------------------------------------------------------------------------
(* deploymentMetricFamilies *)

descDeploymentLabelsName == "openshift_deploymentconfig_labels"
descDeploymentLabelsDefaultLabels == <<"namespace", "deploymentconfig">>

deploymentMetricFamilies ==
    << FamilyGenerator("openshift_deploymentconfig_created",
                       "Unix creation timestamp", "dc_created"),
       FamilyGenerator("openshift_deploymentconfig_status_replicas",
                       "The number of replicas per deployment.", "dc_status_replicas"),
       FamilyGenerator("openshift_deploymentconfig_status_replicas_available",
                       "The number of available replicas per deployment.", "dc_available"),
       FamilyGenerator("openshift_deploymentconfig_status_replicas_unavailable",
                       "The number of unavailable replicas per deployment.", "dc_unavailable"),
       FamilyGenerator("openshift_deploymentconfig_status_replicas_updated",
                       "The number of updated replicas per deployment.", "dc_updated"),
       FamilyGenerator("openshift_deploymentconfig_status_observed_generation",
                       "The generation observed by the deployment controller.", "dc_observed"),
       FamilyGenerator("openshift_deploymentconfig_spec_replicas",
                       "Number of desired pods for a deployment.", "dc_spec_replicas"),
       FamilyGenerator("openshift_deploymentconfig_spec_paused",
                       "Whether the deployment is paused and will not be processed by the deployment controller.",
                       "dc_paused"),
       FamilyGenerator("openshift_deploymentconfig_spec_strategy_rollingupdate_max_unavailable",
                       "Maximum number of unavailable replicas during a rolling update of a deployment.",
                       "dc_max_unavailable"),
       FamilyGenerator("openshift_deploymentconfig_spec_strategy_rollingupdate_max_surge",
                       "Maximum number of replicas that can be scheduled above the desired number of replicas during a rolling update of a deployment.",
                       "dc_max_surge"),
       FamilyGenerator("openshift_deploymentconfig_metadata_generation",
                       "Sequence number representing a specific generation of the desired state.",
                       "dc_generation"),
       FamilyGenerator(descDeploymentLabelsName,
                       "Kubernetes labels converted to Prometheus labels.", "dc_labels") >>

\* one sample without labels of its own
Single(name, value) == Ok(<<Metric(name, <<>>, <<>>, value)>>)

\* the rolling-update generators: no sample without RollingParams, a panic when
\* the value cannot be converted
RollingUpdateFamily(name, d, v) ==
    IF ~d.RollingParams.set THEN Ok(<<>>)
    ELSE IF GetValueFromIntOrPercent(v, d.SpecReplicas).err THEN Panic
    ELSE Single(name, Float64(GetValueFromIntOrPercent(v, d.SpecReplicas).value))

\* the GenerateFunc bodies of deploymentMetricFamilies, before wrapping
deploymentGenerate(gen, d) ==
    CASE gen = "dc_created" ->
           IF ~IsZero(d.CreationTimestamp)
           THEN Single("openshift_deploymentconfig_created",
                       Float64(Unix(d.CreationTimestamp)))
           ELSE Ok(<<>>)
      [] gen = "dc_status_replicas" ->
           Single("openshift_deploymentconfig_status_replicas", Float64(d.StatusReplicas))
      [] gen = "dc_available" ->
           Single("openshift_deploymentconfig_status_replicas_available",
                  Float64(d.AvailableReplicas))
      [] gen = "dc_unavailable" ->
           Single("openshift_deploymentconfig_status_replicas_unavailable",
                  Float64(d.UnavailableReplicas))
      [] gen = "dc_updated" ->
           Single("openshift_deploymentconfig_status_replicas_updated",
                  Float64(d.UpdatedReplicas))
      [] gen = "dc_observed" ->
           Single("openshift_deploymentconfig_status_observed_generation",
                  Float64(d.ObservedGeneration))
      [] gen = "dc_spec_replicas" ->
           Single("openshift_deploymentconfig_spec_replicas", Float64(d.SpecReplicas))
      [] gen = "dc_paused" ->
           Single("openshift_deploymentconfig_spec_paused", boolFloat64(d.Paused))
      [] gen = "dc_max_unavailable" ->
           RollingUpdateFamily(
               "openshift_deploymentconfig_spec_strategy_rollingupdate_max_unavailable",
               d, d.RollingParams.MaxUnavailable)
      [] gen = "dc_max_surge" ->
           RollingUpdateFamily(
               "openshift_deploymentconfig_spec_strategy_rollingupdate_max_surge",
               d, d.RollingParams.MaxSurge)
      [] gen = "dc_generation" ->
           Single("openshift_deploymentconfig_metadata_generation", Float64(d.Generation))
      [] OTHER ->
           \* dc_labels; the objects of the model carry no Kubernetes labels
           Single(descDeploymentLabelsName, Float64(1))

\* obj.(*v1.DeploymentConfig) panics on any other type
wrapDeploymentFunc(gen, obj) ==
    IF obj.Kind # "DeploymentConfig" THEN {Panic}
    ELSE {WithDefaultLabels(deploymentGenerate(gen, obj),
                            descDeploymentLabelsDefaultLabels,
                            <<obj.Namespace, obj.Name>>)}

----------------------------------------------------------------------------
(* buildconfigMetricFamilies *)

descBuildConfigLabelsName == "openshift_buildconfig_labels"
descBuildConfigLabelsDefaultLabels == <<"namespace", "buildconfig">>

buildconfigMetricFamilies ==
    << FamilyGenerator("openshift_buildconfig_created",
                       "Unix creation timestamp", "bc_created"),
       FamilyGenerator("openshift_buildconfig_metadata_generation",
                       "Sequence number representing a specific generation of the desired state.",
                       "bc_generation"),
       FamilyGenerator(descBuildConfigLabelsName,
                       "Kubernetes labels converted to Prometheus labels.", "bc_labels"),
       FamilyGenerator("openshift_buildconfig_status_latest_version",
                       "The latest version of buildconfig.", "bc_latest_version") >>

buildconfigGenerate(gen, d) ==
    CASE gen = "bc_created" ->
           IF ~IsZero(d.CreationTimestamp)
           THEN Single("openshift_buildconfig_created", Float64(Unix(d.CreationTimestamp)))
           ELSE Ok(<<>>)
      [] gen = "bc_generation" ->
           Single("openshift_buildconfig_metadata_generation", Float64(d.Generation))
      [] gen = "bc_labels" ->
           Single(descBuildConfigLabelsName, Float64(1))
      [] OTHER ->
           Single("openshift_buildconfig_status_latest_version", Float64(d.LastVersion))

wrapBuildConfigFunc(gen, obj) ==
    IF obj.Kind # "BuildConfig" THEN {Panic}
    ELSE {WithDefaultLabels(buildconfigGenerate(gen, obj),
                            descBuildConfigLabelsDefaultLabels,
                            <<obj.Namespace, obj.Name>>)}

----------------------------------------------------------------------------
(* buildMetricFamilies *)

descBuildLabelsName == "openshift_build_labels"
descBuildLabelsDefaultLabels == <<"namespace", "build">>

buildMetricFamilies ==
    << FamilyGenerator("openshift_build_created", "Unix creation timestamp", "build_created"),
       FamilyGenerator("openshift_build_metadata_generation",
                       "Sequence number representing a specific generation of the desired state.",
                       "build_generation"),
       FamilyGenerator(descBuildLabelsName,
                       "Kubernetes labels converted to Prometheus labels.", "build_labels"),
       FamilyGenerator("openshift_build_status_phase", "The build phase.", "build_phase"),
       FamilyGenerator("openshift_build_started", "Started time of the build", "build_started"),
       FamilyGenerator("openshift_build_complete", "Started time of the build", "build_complete"),
       FamilyGenerator("openshift_build_duration", "Started time of the build", "build_duration") >>

\* the phase labels of addBuildPahseMetrics with the v1.BuildPhase each tests for
BuildPhases ==
    << <<"complete", "Complete">>, <<"cancelled", "Cancelled">>, <<"new", "New">>,
       <<"pending", "Pending">>, <<"running", "Running">>, <<"failed", "Failed">>,
       <<"error", "Error">> >>

\* an addBuildPahseMetrics whose "cancelled" entry tests the phase of the entry
\* above it
addBuildPahseMetricsCopied(cs) ==
    [i \in DOMAIN BuildPhases |->
        Metric("", <<>>, <<BuildPhases[i][1]>>,
               boolFloat64(cs = BuildPhases[IF i = 2 THEN 1 ELSE i][2]))]

addBuildPahseMetrics(cs) ==
    [i \in DOMAIN BuildPhases |->
        Metric("", <<>>, <<BuildPhases[i][1]>>, boolFloat64(cs = BuildPhases[i][2]))]

\* t.Unix() through a *metav1.Time: Unix is the method of the embedded time.Time,
\* so the call reads *t and a nil t is a nil pointer dereference
PtrUnixSample(name, t) ==
    IF IsNil(t) THEN Panic ELSE Single(name, Float64(Unix(t)))

buildGenerate(gen, b) ==
    CASE gen = "build_created" ->
           IF ~IsZero(b.CreationTimestamp)
           THEN Single("openshift_build_created", Float64(Unix(b.CreationTimestamp)))
           ELSE Ok(<<>>)
      [] gen = "build_generation" ->
           Single("openshift_build_metadata_generation", Float64(b.Generation))
      [] gen = "build_labels" ->
           Single(descBuildLabelsName, Float64(1))
      [] gen = "build_phase" ->
           Ok([i \in DOMAIN addBuildPahseMetrics(b.Phase) |->
                 [addBuildPahseMetrics(b.Phase)[i]
                    EXCEPT !.Name = "openshift_build_status_phase",
                           !.LabelKeys = <<"build_phase">>]])
      [] gen = "build_started" ->
           IF ~IsZero(b.CreationTimestamp)
           THEN PtrUnixSample("openshift_build_started", b.StartTimestamp)
           ELSE Ok(<<>>)
      [] gen = "build_complete" ->
           IF ~IsZero(b.CreationTimestamp)
           THEN PtrUnixSample("openshift_build_complete", b.CompletionTimestamp)
           ELSE Ok(<<>>)
      [] OTHER ->
           IF ~IsZero(b.CreationTimestamp)
           THEN Single("openshift_build_duration", Float64(b.Duration))
           ELSE Ok(<<>>)

wrapBuildFunc(gen, obj) ==
    IF obj.Kind # "Build" THEN {Panic}
    ELSE {WithDefaultLabels(buildGenerate(gen, obj),
                            descBuildLabelsDefaultLabels,
                            <<obj.Namespace, obj.Name>>)}

----------------------------------------------------------------------------
(* quotaMetricFamilies *)

descClusterResourceQuotaLabelsName == "openshift_clusterresourcequota_labels"
descClusterResourceQuotaLabelsDefaultLabels == <<"name">>

\* the labels family is declared with the empty Name
quotaMetricFamilies ==
    << FamilyGenerator("openshift_clusterresourcequota_created",
                       "Unix creation timestamp", "quota_created"),
       FamilyGenerator("", "Kubernetes labels converted to Prometheus labels.",
                       "quota_labels"),
       FamilyGenerator("openshift_clusterresourcequota",
                       "Information about resource quota.", "quota_totals") >>

\* a ResourceSamples that reads the quantity in whole units
ResourceSamplesWhole(list, order, type) ==
    [i \in DOMAIN order |->
        Metric("openshift_clusterresourcequota", <<"resource", "type">>,
               <<order[i], type>>, Float64(list[order[i]] \div Thousand))]

\* one sample per entry of a ResourceList, in the order the map range visits it
ResourceSamples(list, order, type) ==
    [i \in DOMAIN order |->
        Metric("openshift_clusterresourcequota", <<"resource", "type">>,
               <<order[i], type>>, Float64(list[order[i]]) \div Thousand)]

\* the outcomes of a generator: the totals family ranges over two Go maps,
\* whose iteration order is not specified
quotaGenerate(gen, q) ==
    CASE gen = "quota_created" ->
           {IF ~IsZero(q.CreationTimestamp)
            THEN Single("openshift_clusterresourcequota_created",
                        Float64(Unix(q.CreationTimestamp)))
            ELSE Ok(<<>>)}
      [] gen = "quota_labels" ->
           {Single(descClusterResourceQuotaLabelsName, Float64(1))}
      [] OTHER ->
           {Ok(ResourceSamples(q.Hard, h, "hard") \o ResourceSamples(q.Used, u, "used")) :
               <<h, u>> \in Perms(DOMAIN q.Hard) \X Perms(DOMAIN q.Used)}

wrapClusterResourceQuotaFunc(gen, obj) ==
    IF obj.Kind # "ClusterResourceQuota" THEN {Panic}
    ELSE {WithDefaultLabels(out, descClusterResourceQuotaLabelsDefaultLabels, <<obj.Name>>) :
             out \in quotaGenerate(gen, obj)}

----------------------------------------------------------------------------
(* Builder: the resource types, filtering, headers, composition. *)

\* the keys of availableCollectors
ResourceTypes == {"deploymentConfigs", "buildconfigs", "builds", "clusterresourcequotas"}

MetricFamilies(r) ==
    CASE r = "deploymentConfigs" -> deploymentMetricFamilies
      [] r = "buildconfigs" -> buildconfigMetricFamilies
      [] r = "builds" -> buildMetricFamilies
      [] OTHER -> quotaMetricFamilies

\* the expectedType handed to reflectorPerNamespace
ExpectedKind(r) ==
    CASE r = "deploymentConfigs" -> "DeploymentConfig"
      [] r = "buildconfigs" -> "BuildConfig"
      [] r = "builds" -> "Build"
      [] OTHER -> "ClusterResourceQuota"

\* FamilyGenerator.GenerateFunc: the set of outcomes of calling it on obj
GenerateFunc(r, f, obj) ==
    CASE r = "deploymentConfigs" -> wrapDeploymentFunc(f.Gen, obj)
      [] r = "buildconfigs" -> wrapBuildConfigFunc(f.Gen, obj)
      [] r = "builds" -> wrapBuildFunc(f.Gen, obj)
      [] OTHER -> wrapClusterResourceQuotaFunc(f.Gen, obj)

\* whiteBlackLister.IsIncluded
IsIncluded(l, name) ==
    IF l.isWhiteList THEN name \in l.list ELSE name \notin l.list

\* whiteBlackLister.IsExcluded
IsExcluded(l, name) == ~IsIncluded(l, name)

filterMetricFamilies(l, fams) ==
    SelectSeq(fams, LAMBDA f : IsIncluded(l, f.Name))

\* headers for the families that have a name only
extractMetricFamilyHeadersNamed(fams) ==
    LET named == SelectSeq(fams, LAMBDA f : f.Name # "")
    IN  [i \in DOMAIN named |->
            [name |-> named[i].Name, help |-> named[i].Help, type |-> named[i].Type]]

\* one "# HELP name help" / "# TYPE name type" pair per family
extractMetricFamilyHeaders(fams) ==
    [i \in DOMAIN fams |->
        [name |-> fams[i].Name, help |-> fams[i].Help, type |-> fams[i].Type]]

Composed(fs) == [ok |-> TRUE, families |-> fs]
ComposedPanic == [ok |-> FALSE, families |-> <<>>]

\* a composition that fills the result slice from its far end
RECURSIVE composeMetricGenFuncsReversed(_, _, _)
composeMetricGenFuncsReversed(r, fams, obj) ==
    IF fams = <<>> THEN {Composed(<<>>)}
    ELSE UNION {
           IF ~h.ok THEN {ComposedPanic}
           ELSE {IF t.ok THEN Composed(t.families \o <<h.family>>) ELSE ComposedPanic :
                    t \in composeMetricGenFuncsReversed(r, Tail(fams), obj)} :
           h \in GenerateFunc(r, Head(fams), obj)}

\* the function composeMetricGenFuncs returns, applied to obj: each generator is
\* called in turn and nothing recovers a panic
RECURSIVE composeMetricGenFuncs(_, _, _)
composeMetricGenFuncs(r, fams, obj) ==
    IF fams = <<>> THEN {Composed(<<>>)}
    ELSE UNION {
           IF ~h.ok THEN {ComposedPanic}
           ELSE {IF t.ok THEN Composed(<<h.family>> \o t.families) ELSE ComposedPanic :
                    t \in composeMetricGenFuncs(r, Tail(fams), obj)} :
           h \in GenerateFunc(r, Head(fams), obj)}

----------------------------------------------------------------------------
(* Rendering and the metrics store. *)

\* one exposition line: name{label="value",...} value
Line(m) ==
    [name |-> m.Name,
     labels |-> [i \in DOMAIN m.LabelKeys |-> <<m.LabelKeys[i], m.LabelValues[i]>>],
     value |-> m.Value]

\* FamilyStringer.String(): the lines of one family of one object
FamilyString(f) == [i \in DOMAIN f |-> Line(f[i])]

\* a RenderedEntry: the lines of all families of one object, in descriptor order
Render(fs) == Flatten([i \in DOMAIN fs |-> FamilyString(fs[i])])

\* the entries the store may hold for obj: one per outcome that did not panic
Renderings(r, fams, obj) ==
    {Render(c.families) : c \in {d \in composeMetricGenFuncs(r, fams, obj) : d.ok}}

NewMetricsStore == [id \in {} |-> <<>>]

\* MetricsStore.Add: overwrite the entry of the identity
StoreAdd(m, id, entry) ==
    [k \in DOMAIN m \cup {id} |-> IF k = id THEN entry ELSE m[k]]

\* an Update that only rewrites an identity the store already holds
StoreUpdateExisting(m, id, entry) ==
    [k \in DOMAIN m |-> IF k = id THEN entry ELSE m[k]]

\* an Update that adds the new lines to the entry it finds
StoreUpdateAppends(m, id, entry) ==
    [k \in DOMAIN m \cup {id} |->
        IF k # id THEN m[k] ELSE IF id \in DOMAIN m THEN m[id] \o entry ELSE entry]

\* MetricsStore.Update: identical effect
StoreUpdate(m, id, entry) ==
    [k \in DOMAIN m \cup {id} |-> IF k = id THEN entry ELSE m[k]]

\* a Delete that empties the entry and keeps its key
StoreDeleteClears(m, id) == [k \in DOMAIN m |-> IF k = id THEN <<>> ELSE m[k]]

\* MetricsStore.Delete: remove the entry; no-op if absent
StoreDelete(m, id) == [k \in DOMAIN m \ {id} |-> m[k]]

\* a Replace that writes the given pairs over the mapping it finds
RECURSIVE StoreReplaceMerges(_, _)
StoreReplaceMerges(m, pairs) ==
    IF pairs = <<>> THEN m
    ELSE StoreAdd(StoreReplaceMerges(m, SubSeq(pairs, 1, Len(pairs) - 1)),
                  pairs[Len(pairs)][1], pairs[Len(pairs)][2])

\* MetricsStore.Replace: swap the whole mapping for the given (identity, entry)
\* pairs; a later pair of the same identity wins
RECURSIVE StoreReplace(_, _)
StoreReplace(m, pairs) ==
    IF pairs = <<>> THEN NewMetricsStore
    ELSE StoreAdd(StoreReplace(m, SubSeq(pairs, 1, Len(pairs) - 1)),
                  pairs[Len(pairs)][1], pairs[Len(pairs)][2])

\* MetricsStore.List: the header block, then every entry in a stable order
StoreList(h, m) ==
    [header |-> h,
     body |-> Flatten([i \in DOMAIN IdOrder |->
                         IF IdOrder[i] \in DOMAIN m THEN m[IdOrder[i]] ELSE <<>>])]

\* the outcomes of rendering a list of objects for Replace: a panic, or the
\* (identity, entry) pairs in list order
RECURSIVE RenderAll(_, _, _)
RenderAll(r, fams, objs) ==
    IF objs = <<>> THEN {[ok |-> TRUE, pairs |-> <<>>]}
    ELSE UNION {
           IF ~c.ok THEN {[ok |-> FALSE, pairs |-> <<>>]}
           ELSE {IF t.ok
                 THEN [ok |-> TRUE,
                       pairs |-> <<(<<Id(Head(objs)), Render(c.families)>>)>> \o t.pairs]
                 ELSE [ok |-> FALSE, pairs |-> <<>>] :
                    t \in RenderAll(r, fams, Tail(objs))} :
           c \in composeMetricGenFuncs(r, fams, Head(objs))}

\* a Replace that calls the composed generator twice per object
InvokedByTwice(r, fams, objs) == objs \o objs

\* the objects Replace has called the composed generator with when it returns
\* or panics: the list up to the first object whose rendering panics
RECURSIVE InvokedBy(_, _, _)
InvokedBy(r, fams, objs) ==
    IF objs = <<>> THEN <<>>
    ELSE IF ComposedPanic \in composeMetricGenFuncs(r, fams, Head(objs))
    THEN <<Head(objs)>>
    ELSE <<Head(objs)>> \o InvokedBy(r, fams, Tail(objs))

----------------------------------------------------------------------------
(* One store and the operations a synchronizer and a scrape apply to it. *)

created == {"openshift_deploymentconfig_created", "openshift_buildconfig_created",
            "openshift_build_created", "openshift_clusterresourcequota_created"}

labelNames == {descDeploymentLabelsName, descBuildConfigLabelsName, descBuildLabelsName,
               descClusterResourceQuotaLabelsName}

computed == {"openshift_deploymentconfig_spec_strategy_rollingupdate_max_unavailable",
             "openshift_buildconfig_status_latest_version",
             "openshift_build_status_phase", "openshift_clusterresourcequota"}

\* the filters the Builder is configured with: a blacklist (empty when nothing
\* is configured) or a non-empty whitelist
WhiteBlackLists ==
    [isWhiteList : {FALSE}, list : {{}, created, labelNames, computed}]
        \cup [isWhiteList : {TRUE}, list : {created, computed}]

\* an object of another resource type, as a synchronizer may deliver it
Stranger(r) == IF r = "buildconfigs" THEN dcV1 ELSE bcV2

\* the objects delivered to the store of resource type r
Delivered(r) == {o \in Objects : o.Kind = ExpectedKind(r)} \cup {Stranger(r)}

NoOp == [op |-> "None", objs |-> <<>>]
Op(name, objs) == [op |-> name, objs |-> objs]
NoTasks == <<>>
NoList == [header |-> <<>>, body |-> <<>>]

\* the history a store operation leaves behind
Record(op) == lastOp' = op

StoreInit ==
    /\ resource \in ResourceTypes
    /\ whiteBlackList \in WhiteBlackLists
    /\ families = filterMetricFamilies(whiteBlackList, MetricFamilies(resource))
    /\ headers = extractMetricFamilyHeaders(families)
    /\ metrics = NewMetricsStore
    /\ panicked = FALSE
    /\ lastOp = NoOp
    /\ listed = NoList
    /\ invoked = <<>>

\* one store, unused, where the specification is not about the store's operations
StoreIdle ==
    /\ resource = "deploymentConfigs"
    /\ whiteBlackList = [isWhiteList |-> FALSE, list |-> {}]
    /\ families = filterMetricFamilies(whiteBlackList, MetricFamilies(resource))
    /\ headers = extractMetricFamilyHeaders(families)
    /\ metrics = NewMetricsStore
    /\ panicked = FALSE
    /\ lastOp = NoOp
    /\ listed = NoList
    /\ invoked = <<>>
    /\ tasks = NoTasks

\* no context cancelled, no reflector returned
SyncIdle ==
    /\ ctx = "live"
    /\ terminated = {}

\* no Builder at work
BuildIdle ==
    /\ builder = [enabledCollectors |-> <<>>, namespaces |-> <<>>,
                  hasWhiteBlackList |-> FALSE]
    /\ bpc = "idle"
    /\ idx = 0
    /\ nsIdx = 0
    /\ stores = [r \in {} |-> <<>>]
    /\ reflectors = {}
    /\ collectors = <<>>
    /\ registered = {}

\* no scrape of the deployment config collector yet
CollectIdle ==
    /\ ScrapeErrorTotalMetric = 0
    /\ ResourcesPerScrapeMetric = <<>>
    /\ ch = <<>>
    /\ ds = [err |-> FALSE, list |-> <<>>]

\* no main at work
MainIdle ==
    /\ opts = [MetricWhitelist |-> {}, MetricBlacklist |-> {}, Collectors |-> {},
               Namespaces |-> <<>>]
    /\ mpc = "idle"
    /\ informers = {}
    /\ registry = {}
    /\ serving = {}
    /\ CollectIdle

Init ==
    /\ StoreInit
    /\ tasks = NoTasks
    /\ BuildIdle
    /\ MainIdle
    /\ SyncIdle

\* store.Add(obj): the composed generator runs, its panic is the caller's
Add(o) ==
    /\ ~panicked
    /\ \E c \in composeMetricGenFuncs(resource, families, o) :
          IF c.ok
          THEN /\ metrics' = StoreAdd(metrics, Id(o), Render(c.families))
               /\ panicked' = FALSE
          ELSE /\ panicked' = TRUE
               /\ UNCHANGED metrics
    /\ Record(Op("Add", <<o>>))
    /\ invoked' = <<o>>
    /\ UNCHANGED <<resource, whiteBlackList, headers, families, listed, tasks>>
    /\ UNCHANGED <<buildVars, mainVars, syncVars>>

\* store.Update(obj)
Update(o) ==
    /\ ~panicked
    /\ \E c \in composeMetricGenFuncs(resource, families, o) :
          IF c.ok
          THEN /\ metrics' = StoreUpdate(metrics, Id(o), Render(c.families))
               /\ panicked' = FALSE
          ELSE /\ panicked' = TRUE
               /\ UNCHANGED metrics
    /\ Record(Op("Update", <<o>>))
    /\ invoked' = <<o>>
    /\ UNCHANGED <<resource, whiteBlackList, headers, families, listed, tasks>>
    /\ UNCHANGED <<buildVars, mainVars, syncVars>>

\* store.Delete(obj)
Delete(o) ==
    /\ ~panicked
    /\ metrics' = StoreDelete(metrics, Id(o))
    /\ Record(Op("Delete", <<o>>))
    /\ invoked' = <<>>
    /\ UNCHANGED <<resource, whiteBlackList, headers, families, panicked, listed, tasks>>
    /\ UNCHANGED <<buildVars, mainVars, syncVars>>

\* store.Replace(objs)
Replace(objs) ==
    /\ ~panicked
    /\ \E c \in RenderAll(resource, families, objs) :
          IF c.ok
          THEN /\ metrics' = StoreReplace(metrics, c.pairs)
               /\ panicked' = FALSE
          ELSE /\ panicked' = TRUE
               /\ UNCHANGED metrics
    /\ Record(Op("Replace", objs))
    /\ invoked' = InvokedBy(resource, families, objs)
    /\ UNCHANGED <<resource, whiteBlackList, headers, families, listed, tasks>>
    /\ UNCHANGED <<buildVars, mainVars, syncVars>>

\* store.List(): a scrape
List ==
    /\ ~panicked
    /\ listed' = StoreList(headers, metrics)
    /\ Record(Op("List", <<>>))
    /\ invoked' = <<>>
    /\ UNCHANGED <<resource, whiteBlackList, headers, families, metrics, panicked, tasks>>
    /\ UNCHANGED <<buildVars, mainVars, syncVars>>

Next ==
    \/ \E o \in Delivered(resource) : Add(o)
    \/ \E o \in Delivered(resource) : Update(o)
    \/ \E o \in Delivered(resource) : Delete(o)
    \/ \E objs \in SeqsUpTo(Delivered(resource), MaxReplace) : Replace(objs)
    \/ List

Spec == Init /\ [][Next]_vars

----------------------------------------------------------------------------
(* Two synchronizer tasks of one store: reflectorPerNamespace starts one    *)
(* reflector goroutine per namespace on the same store. Task 1 applies      *)
(* Add(obj), task 2 applies Update(obj); a scrape may List() at any time.   *)
(* The store's mutation discipline is exclusive per key.                    *)

TaskOps == <<"Add", "Update">>

Task(op, o) == [op |-> op, obj |-> o, pc |-> "start", entry |-> <<>>]

\* the identities some task is writing
Writing == {Id(tasks[t].obj) : t \in {u \in DOMAIN tasks : tasks[u].pc \in {"locked", "generated"}}}

ConcInit ==
    /\ StoreInit
    /\ \E o1 \in Delivered(resource), o2 \in Delivered(resource) :
          tasks = <<Task(TaskOps[1], o1), Task(TaskOps[2], o2)>>
    /\ BuildIdle
    /\ MainIdle
    /\ SyncIdle

\* the task enters the store operation once no other write to the key is under way
Begin(t) ==
    /\ ~panicked
    /\ tasks[t].pc = "start"
    /\ Id(tasks[t].obj) \notin Writing
    /\ tasks' = [tasks EXCEPT ![t].pc = "locked"]
    /\ invoked' = <<>>
    /\ UNCHANGED <<resource, whiteBlackList, headers, families, metrics, panicked,
                   lastOp, listed>>
    /\ UNCHANGED <<buildVars, mainVars, syncVars>>

\* the composed generator runs for the task's object
Generate(t) ==
    /\ ~panicked
    /\ tasks[t].pc = "locked"
    /\ \E c \in composeMetricGenFuncs(resource, families, tasks[t].obj) :
          IF c.ok
          THEN /\ tasks' = [tasks EXCEPT ![t].pc = "generated",
                                         ![t].entry = Render(c.families)]
               /\ panicked' = FALSE
          ELSE /\ tasks' = [tasks EXCEPT ![t].pc = "panicked"]
               /\ panicked' = TRUE
    /\ invoked' = <<tasks[t].obj>>
    /\ UNCHANGED <<resource, whiteBlackList, headers, families, metrics, lastOp, listed>>
    /\ UNCHANGED <<buildVars, mainVars, syncVars>>

\* the entry is written and the key released
Write(t) ==
    /\ ~panicked
    /\ tasks[t].pc = "generated"
    /\ metrics' = IF tasks[t].op = "Add"
                  THEN StoreAdd(metrics, Id(tasks[t].obj), tasks[t].entry)
                  ELSE StoreUpdate(metrics, Id(tasks[t].obj), tasks[t].entry)
    /\ tasks' = [tasks EXCEPT ![t].pc = "done"]
    /\ Record(Op(tasks[t].op, <<tasks[t].obj>>))
    /\ invoked' = <<>>
    /\ UNCHANGED <<resource, whiteBlackList, headers, families, panicked, listed>>
    /\ UNCHANGED <<buildVars, mainVars, syncVars>>

ConcNext ==
    \/ \E t \in DOMAIN tasks : Begin(t)
    \/ \E t \in DOMAIN tasks : Generate(t)
    \/ \E t \in DOMAIN tasks : Write(t)
    \/ List

SpecConc == ConcInit /\ [][ConcNext]_vars

----------------------------------------------------------------------------
(* Builder: configuration, then Build, which constructs per enabled         *)
(* collector one store, starts one reflector per namespace on it and        *)
(* returns the collector that wraps it.                                     *)

NamespaceAll == ""

availableCollectors == {"deploymentConfigs", "buildconfigs", "builds", "clusterresourcequotas"}

\* the names a caller may enable: the available ones and one that is not
CollectorNames == availableCollectors \cup {"pods"}

\* the byte order of the names, as sort.Strings orders them
StringOrder == <<"buildconfigs", "builds", "clusterresourcequotas", "deploymentConfigs", "pods">>

SortStrings(c) ==
    LET in(x) == x \in c
    IN  SelectSeq(StringOrder, in)

NamespaceLists == {<<NamespaceAll>>, <<"ns1">>, <<"ns1", "ns2">>}

EmptyList == [isWhiteList |-> FALSE, list |-> {}]

NewBuilder ==
    [enabledCollectors |-> <<>>, namespaces |-> <<>>,
     whiteBlackList |-> EmptyList, whiteBlackListNil |-> TRUE]

\* the steps of one collector's build function, in the order it takes them
buildCollectorStagesReflectFirst == <<"reflectorPerNamespace", "NewMetricsStore", "NewCollector">>

\* a build function that starts no reflector
buildCollectorStagesNoReflector == <<"NewMetricsStore", "NewCollector">>

buildCollectorStages == <<"NewMetricsStore", "reflectorPerNamespace", "NewCollector">>

StageIndex(st) == CHOOSE i \in DOMAIN buildCollectorStages : buildCollectorStages[i] = st

\* the collector Build is at
Current == builder.enabledCollectors[idx]

BuildInit ==
    /\ StoreIdle
    /\ builder = NewBuilder
    /\ bpc = "new"
    /\ idx = 0
    /\ nsIdx = 0
    /\ stores = [r \in {} |-> <<>>]
    /\ reflectors = {}
    /\ collectors = <<>>
    /\ registered = {}
    /\ MainIdle
    /\ SyncIdle

BuildUnchanged == UNCHANGED <<storeVars, mainVars, syncVars>>

WithEnabledCollectors(c) ==
    /\ bpc = "new"
    /\ builder' = [builder EXCEPT !.enabledCollectors = SortStrings(c)]
    /\ UNCHANGED <<bpc, idx, nsIdx, stores, reflectors, collectors, registered>>
    /\ BuildUnchanged

WithNamespaces(n) ==
    /\ bpc = "new"
    /\ builder' = [builder EXCEPT !.namespaces = n]
    /\ UNCHANGED <<bpc, idx, nsIdx, stores, reflectors, collectors, registered>>
    /\ BuildUnchanged

WithWhiteBlackList(l) ==
    /\ bpc = "new"
    /\ builder' = [builder EXCEPT !.whiteBlackList = l, !.whiteBlackListNil = FALSE]
    /\ UNCHANGED <<bpc, idx, nsIdx, stores, reflectors, collectors, registered>>
    /\ BuildUnchanged

\* a Build that does not test whiteBlackList for nil
BuildEnterUnchecked ==
    /\ bpc = "new"
    /\ bpc' = "loop"
    /\ idx' = 1
    /\ UNCHANGED <<builder, nsIdx, stores, reflectors, collectors, registered>>
    /\ BuildUnchanged

\* Build is entered: it panics without a whiteBlackList
BuildEnter ==
    /\ bpc = "new"
    /\ bpc' = IF builder.whiteBlackListNil THEN "panic" ELSE "loop"
    /\ idx' = 1
    /\ UNCHANGED <<builder, nsIdx, stores, reflectors, collectors, registered>>
    /\ BuildUnchanged

\* the head of Build's loop: return, or look the next collector up
BuildLoop ==
    /\ bpc = "loop"
    /\ bpc' = IF idx > Len(builder.enabledCollectors) THEN "returned"
              ELSE IF Current \notin availableCollectors THEN "fatal"
              ELSE buildCollectorStages[1]
    /\ nsIdx' = 1
    /\ UNCHANGED <<builder, idx, stores, reflectors, collectors, registered>>
    /\ BuildUnchanged

\* a stage of the build function is over: the next one, or back to the loop
StageDone ==
    IF StageIndex(bpc) < Len(buildCollectorStages)
    THEN /\ bpc' = buildCollectorStages[StageIndex(bpc) + 1]
         /\ idx' = idx
    ELSE /\ bpc' = "loop"
         /\ idx' = idx + 1

\* filter the families, compose, extract the headers, construct the store
BuildNewMetricsStore ==
    /\ bpc = "NewMetricsStore"
    /\ LET filteredMetricFamilies ==
               filterMetricFamilies(builder.whiteBlackList, MetricFamilies(Current))
       IN  stores' = [r \in DOMAIN stores \cup {Current} |->
                         IF r = Current
                         THEN [headers |-> extractMetricFamilyHeaders(filteredMetricFamilies),
                               metrics |-> NewMetricsStore]
                         ELSE stores[r]]
    /\ StageDone
    /\ UNCHANGED <<builder, nsIdx, reflectors, collectors, registered>>
    /\ BuildUnchanged

\* go reflector.Run for the next namespace, or the end of the namespaces
reflectorPerNamespace ==
    /\ bpc = "reflectorPerNamespace"
    /\ IF nsIdx <= Len(builder.namespaces)
       THEN /\ reflectors' = reflectors \cup {<<Current, builder.namespaces[nsIdx]>>}
            /\ nsIdx' = nsIdx + 1
            /\ UNCHANGED <<bpc, idx>>
       ELSE /\ StageDone
            /\ UNCHANGED <<reflectors, nsIdx>>
    /\ UNCHANGED <<builder, stores, collectors, registered>>
    /\ BuildUnchanged

\* the collector that wraps the store is returned and appended
BuildNewCollector ==
    /\ bpc = "NewCollector"
    /\ collectors' = Append(collectors, Current)
    /\ StageDone
    /\ UNCHANGED <<builder, nsIdx, stores, reflectors, registered>>
    /\ BuildUnchanged

\* the caller registers the returned collectors with the scrape adapter
RegisterCollectors ==
    /\ bpc = "returned"
    /\ registered' = Range(collectors)
    /\ bpc' = "serving"
    /\ UNCHANGED <<builder, idx, nsIdx, stores, reflectors, collectors>>
    /\ BuildUnchanged

BuildNext ==
    \/ \E c \in SUBSET CollectorNames : WithEnabledCollectors(c)
    \/ \E n \in NamespaceLists : WithNamespaces(n)
    \/ \E l \in WhiteBlackLists : WithWhiteBlackList(l)
    \/ BuildEnter
    \/ BuildLoop
    \/ BuildNewMetricsStore
    \/ reflectorPerNamespace
    \/ BuildNewCollector
    \/ RegisterCollectors

SpecBuild == BuildInit /\ [][BuildNext]_vars

----------------------------------------------------------------------------
(* The reflectors at work after Build has returned: each lists and watches  *)
(* its namespace and writes to the store of its resource type, until the    *)
(* Builder's context is cancelled and its Run returns.                      *)

\* the collector sets of the Builders whose reflectors are followed
SyncCollectors ==
    {{r} : r \in availableCollectors} \cup {{"buildconfigs", "deploymentConfigs"}}

\* the filters of those Builders: none, and one that leaves the computed families out
SyncLists == {EmptyList, [isWhiteList |-> FALSE, list |-> computed]}

\* Build has returned for the Builder with collectors c, namespaces n and filter l
Built(c, n, l) ==
    /\ builder = [enabledCollectors |-> SortStrings(c), namespaces |-> n,
                  whiteBlackList |-> l, whiteBlackListNil |-> FALSE]
    /\ bpc = "returned"
    /\ idx = Len(SortStrings(c)) + 1
    /\ nsIdx = 1
    /\ stores = [r \in c |->
                    [headers |-> extractMetricFamilyHeaders(
                                     filterMetricFamilies(l, MetricFamilies(r))),
                     metrics |-> NewMetricsStore]]
    /\ reflectors = {<<r, n[i]>> : r \in c, i \in DOMAIN n}
    /\ collectors = SortStrings(c)
    /\ registered = {}

SyncInit ==
    /\ StoreIdle
    /\ MainIdle
    /\ SyncIdle
    /\ \E c \in SyncCollectors, n \in NamespaceLists, l \in SyncLists : Built(c, n, l)

\* the objects the list-watch of resource type r yields for namespace ns; the
\* quota list-watch does not read ns
Watched(r, ns) ==
    {o \in Objects : /\ o.Kind = ExpectedKind(r)
                     /\ \/ r = "clusterresourcequotas"
                        \/ ns = NamespaceAll
                        \/ o.Namespace = ns}

\* the lists a reflector may receive: objects of distinct identities
Listings(r, ns) ==
    {l \in SeqsUpTo(Watched(r, ns), MaxReplace) :
        \A i, j \in DOMAIN l : i # j => Id(l[i]) # Id(l[j])}

\* the filtered families the store of resource type r composes
SyncFamilies(r) == filterMetricFamilies(builder.whiteBlackList, MetricFamilies(r))

\* a stop channel that is never closed
StopChannelBackground(x) == "live"

\* the stop channel reflector x runs with: ctx.Done() of the Builder's context
StopChannel(x) == ctx

storeRest == <<resource, whiteBlackList, headers, families, metrics, lastOp, listed,
               tasks, invoked>>

\* the context is cancelled: the process-wide stop signal
Cancel ==
    /\ ~panicked
    /\ ctx = "live"
    /\ ctx' = "done"
    /\ UNCHANGED <<terminated, storeVars, buildVars, mainVars>>

\* reflector x has listed: store.Replace(objs)
ReflectorReplace(x, objs) ==
    /\ ~panicked
    /\ x \in reflectors \ terminated
    /\ \E c \in RenderAll(x[1], SyncFamilies(x[1]), objs) :
          IF c.ok
          THEN /\ stores' = [stores EXCEPT ![x[1]].metrics = StoreReplace(@, c.pairs)]
               /\ panicked' = FALSE
          ELSE /\ panicked' = TRUE
               /\ UNCHANGED stores
    /\ UNCHANGED <<builder, bpc, idx, nsIdx, reflectors, collectors, registered>>
    /\ UNCHANGED <<storeRest, mainVars, syncVars>>

\* reflector x has watched an added or modified object: store.Add(o) / store.Update(o)
ReflectorAdd(x, o) ==
    /\ ~panicked
    /\ x \in reflectors \ terminated
    /\ \E c \in composeMetricGenFuncs(x[1], SyncFamilies(x[1]), o) :
          IF c.ok
          THEN /\ stores' = [stores EXCEPT
                                ![x[1]].metrics = StoreAdd(@, Id(o), Render(c.families))]
               /\ panicked' = FALSE
          ELSE /\ panicked' = TRUE
               /\ UNCHANGED stores
    /\ UNCHANGED <<builder, bpc, idx, nsIdx, reflectors, collectors, registered>>
    /\ UNCHANGED <<storeRest, mainVars, syncVars>>

\* reflector x has watched a deletion: store.Delete(o)
ReflectorDelete(x, o) ==
    /\ ~panicked
    /\ x \in reflectors \ terminated
    /\ stores' = [stores EXCEPT ![x[1]].metrics = StoreDelete(@, Id(o))]
    /\ UNCHANGED <<builder, bpc, idx, nsIdx, reflectors, collectors, registered>>
    /\ UNCHANGED <<storeVars, mainVars, syncVars>>

\* reflector x finds its stop channel closed: Run returns
ReflectorStop(x) ==
    /\ ~panicked
    /\ x \in reflectors \ terminated
    /\ StopChannel(x) = "done"
    /\ terminated' = terminated \cup {x}
    /\ UNCHANGED <<ctx, storeVars, buildVars, mainVars>>

SyncNext ==
    \/ Cancel
    \/ \E x \in reflectors : \E objs \in Listings(x[1], x[2]) : ReflectorReplace(x, objs)
    \/ \E x \in reflectors : \E o \in Watched(x[1], x[2]) : ReflectorAdd(x, o)
    \/ \E x \in reflectors : \E o \in Watched(x[1], x[2]) : ReflectorDelete(x, o)
    \/ \E x \in reflectors : ReflectorStop(x)

\* every reflector is a goroutine of its own, which the scheduler runs: one whose
\* stop channel is closed returns
SpecSync ==
    /\ SyncInit
    /\ [][SyncNext]_vars
    /\ WF_vars(\E x \in reflectors : ReflectorStop(x))

----------------------------------------------------------------------------
(* main: options, validation, the telemetry server, the collectors and      *)
(* their informers, the metrics server.                                     *)

DefaultNamespaces == <<NamespaceAll>>

DefaultCollectors == {"deploymentConfigs"}

\* the collectors main can register
AvailableCollectors == {"deploymentConfigs"}

Options ==
    [Version : BOOLEAN, Help : BOOLEAN,
     Collectors : SUBSET {"deploymentConfigs", "pods"},
     Namespaces : {<<>>, <<"ns1">>, <<"ns1", "ns2">>},
     MetricWhitelist : {{}, created},
     MetricBlacklist : {{}, labelNames}]

\* the collectors main enables
EnabledCollectors(o) == IF o.Collectors = {} THEN DefaultCollectors ELSE o.Collectors

\* a test that takes a lone blacklist for the conflict and lets both lists through
MutuallyExclusiveNever(o) == o.MetricWhitelist = {} /\ o.MetricBlacklist # {}

\* whitelist and blacklist are both set
MutuallyExclusive(o) == o.MetricWhitelist # {} /\ o.MetricBlacklist # {}

MainInit ==
    /\ StoreIdle
    /\ BuildIdle
    /\ SyncIdle
    /\ opts \in Options
    /\ mpc = "start"
    /\ informers = {}
    /\ registry = {}
    /\ serving = {}
    /\ CollectIdle

MainUnchanged == UNCHANGED <<storeVars, buildVars, syncVars, collectVars>>

\* the options are parsed; --version and --help print and exit
mainParse ==
    /\ mpc = "start"
    /\ mpc' = IF opts.Version \/ opts.Help THEN "exit" ELSE "defaults"
    /\ UNCHANGED <<opts, informers, registry, serving>>
    /\ MainUnchanged

\* the default collectors and namespaces
mainDefaults ==
    /\ mpc = "defaults"
    /\ opts' = [opts EXCEPT !.Namespaces =
                   IF Len(opts.Namespaces) = 0 THEN DefaultNamespaces ELSE opts.Namespaces]
    /\ mpc' = "validate"
    /\ UNCHANGED <<informers, registry, serving>>
    /\ MainUnchanged

\* glog.Fatal when whitelist and blacklist are both set
mainValidate ==
    /\ mpc = "validate"
    /\ mpc' = IF MutuallyExclusive(opts) THEN "fatal" ELSE "telemetry"
    /\ UNCHANGED <<opts, informers, registry, serving>>
    /\ MainUnchanged

\* go telemetryServer
mainTelemetry ==
    /\ mpc = "telemetry"
    /\ serving' = serving \cup {"telemetry"}
    /\ mpc' = "register"
    /\ UNCHANGED <<opts, informers, registry>>
    /\ MainUnchanged

\* one informer per namespace, the collector registered, the informers run
RegisterDeploymentConfigCollector(c, o) ==
    [informers |-> {<<c, o.Namespaces[i]>> : i \in DOMAIN o.Namespaces},
     registry |-> {c}]

\* every enabled collector that is available is registered; the others are skipped
registerCollectors ==
    /\ mpc = "register"
    /\ LET active == EnabledCollectors(opts) \cap AvailableCollectors
       IN  /\ informers' = UNION {RegisterDeploymentConfigCollector(c, opts).informers :
                                     c \in active}
           /\ registry' = UNION {RegisterDeploymentConfigCollector(c, opts).registry :
                                    c \in active}
    /\ mpc' = "metrics"
    /\ UNCHANGED <<opts, serving>>
    /\ MainUnchanged

mainMetricsServer ==
    /\ mpc = "metrics"
    /\ serving' = serving \cup {"metrics"}
    /\ mpc' = "serving"
    /\ UNCHANGED <<opts, informers, registry>>
    /\ MainUnchanged

MainNext ==
    \/ mainParse
    \/ mainDefaults
    \/ mainValidate
    \/ mainTelemetry
    \/ registerCollectors
    \/ mainMetricsServer

SpecMain == MainInit /\ [][MainNext]_vars

----------------------------------------------------------------------------
(* deploymentCollector: the collector that reads its deploymentStore on     *)
(* every scrape and sends the metrics of the listed deployment configs.     *)

descDeploymentConfigLabelsName == "openshift_deploymentconfig_labels"
descDeploymentConfigLabelsDefaultLabels == <<"namespace", "deploymentconfig">>

\* addGauge: one const metric, the namespace and name in front of its label values
addGauge(d, name, v) ==
    Metric(name, descDeploymentConfigLabelsDefaultLabels, <<d.Namespace, d.Name>>, v)

\* a rolling-update gauge: logged and left out when the value cannot be converted
RollingGauge(d, name, v) ==
    IF GetValueFromIntOrPercent(v, d.SpecReplicas).err THEN <<>>
    ELSE <<addGauge(d, name, Float64(GetValueFromIntOrPercent(v, d.SpecReplicas).value))>>

\* the metrics collectDeploymentConfig sends for d, in the order it sends them
collectDeploymentConfig(d) ==
    <<addGauge(d, descDeploymentConfigLabelsName, Float64(1))>>
    \o (IF ~IsZero(d.CreationTimestamp)
        THEN <<addGauge(d, "openshift_deploymentconfig_created",
                        Float64(Unix(d.CreationTimestamp)))>>
        ELSE <<>>)
    \o <<addGauge(d, "openshift_deploymentconfig_status_replicas", Float64(d.StatusReplicas)),
         addGauge(d, "openshift_deploymentconfig_status_replicas_available",
                  Float64(d.AvailableReplicas)),
         addGauge(d, "openshift_deploymentconfig_status_replicas_unavailable",
                  Float64(d.UnavailableReplicas)),
         addGauge(d, "openshift_deploymentconfig_status_replicas_updated",
                  Float64(d.UpdatedReplicas)),
         addGauge(d, "openshift_deploymentconfig_status_observed_generation",
                  Float64(d.ObservedGeneration)),
         addGauge(d, "openshift_deploymentconfig_spec_paused", boolFloat64(d.Paused)),
         addGauge(d, "openshift_deploymentconfig_spec_replicas", Float64(d.SpecReplicas)),
         addGauge(d, "openshift_deploymentconfig_metadata_generation",
                  Float64(d.Generation))>>
    \o (IF ~d.RollingParams.set THEN <<>>
        ELSE RollingGauge(d, "openshift_deploymentconfig_spec_strategy_rollingupdate_max_unavailable",
                          d.RollingParams.MaxUnavailable)
             \o RollingGauge(d, "openshift_deploymentconfig_spec_strategy_rollingupdate_max_surge",
                             d.RollingParams.MaxSurge))

\* what a deploymentStore may return from List(): an error, or deployment configs
ListResults ==
    {[err |-> TRUE, list |-> <<>>]}
        \cup {[err |-> FALSE, list |-> l] : l \in SeqsUpTo({dcV1, dcV2, dcBad}, 2)}

\* a Collect that counts a scrape error on every scrape and goes on after one
deploymentCollectorCollectCounts(res, errors, observed) ==
    [errors |-> errors + 1,
     observed |-> Append(observed, Len(res.list)),
     sent |-> Flatten([i \in DOMAIN res.list |-> collectDeploymentConfig(res.list[i])])]

\* deploymentCollector.Collect, given what store.List() returned and the two
\* metric vectors as it finds them: the vectors and the metrics sent
deploymentCollectorCollect(res, errors, observed) ==
    IF res.err
    THEN [errors |-> errors + 1, observed |-> observed, sent |-> <<>>]
    ELSE [errors |-> errors + 0,
          observed |-> Append(observed, Len(res.list)),
          sent |-> Flatten([i \in DOMAIN res.list |-> collectDeploymentConfig(res.list[i])])]

CollectInit ==
    /\ StoreIdle
    /\ BuildIdle
    /\ SyncIdle
    /\ MainIdle

\* one scrape: Collect is called with a fresh channel
Collect(res) ==
    /\ ScrapeErrorTotalMetric + Len(ResourcesPerScrapeMetric) < MaxScrapes
    /\ LET out == deploymentCollectorCollect(res, ScrapeErrorTotalMetric,
                                             ResourcesPerScrapeMetric)
       IN  /\ ScrapeErrorTotalMetric' = out.errors
           /\ ResourcesPerScrapeMetric' = out.observed
           /\ ch' = out.sent
    /\ ds' = res
    /\ UNCHANGED <<opts, mpc, informers, registry, serving>>
    /\ UNCHANGED <<storeVars, buildVars, syncVars>>

CollectNext == \E res \in ListResults : Collect(res)

SpecCollect == CollectInit /\ [][CollectNext]_vars

----------------------------------------------------------------------------
(* Reading the exposition text. *)

\* the identity an exposition line names in its default labels
LineIdentity(r, line) ==
    IF r = "clusterresourcequotas" THEN <<"", line.labels[1][2]>>
    ELSE <<line.labels[1][2], line.labels[2][2]>>

\* the identities with at least one line in a List() output
Blocks(r, out) == {LineIdentity(r, out.body[i]) : i \in DOMAIN out.body}

\* the metric names of the sample lines, and the names of the headers
LineNames(out) == {out.body[i].name : i \in DOMAIN out.body}
HeaderNames(out) == {out.header[i].name : i \in DOMAIN out.header}

Ids(objs) == {Id(objs[i]) : i \in DOMAIN objs}

----------------------------------------------------------------------------
(* C1: right after Delete(k), the store holds no entry for k and List()    *)
(* shows no line of k; a Delete of an identity the store does not hold      *)
(* leaves the mapping and the header block as they were.                    *)

C1_DeleteRemovesBlock ==
    [][\A o \in Delivered(resource) :
          Delete(o) =>
             /\ Id(o) \notin DOMAIN metrics'
             /\ Id(o) \notin Blocks(resource, StoreList(headers', metrics'))
             /\ \A k \in DOMAIN metrics \ {Id(o)} :
                   k \in DOMAIN metrics' /\ metrics'[k] = metrics[k]
             /\ (Id(o) \notin DOMAIN metrics =>
                   metrics' = metrics /\ headers' = headers)]_vars

\* a Delete has removed one entry and left another in the store
C1_Witness ==
    /\ lastOp.op = "Delete"
    /\ Id(lastOp.objs[1]) \notin DOMAIN metrics
    /\ DOMAIN metrics # {}

(* C2: a Replace(objects) that returns leaves exactly the identities of the *)
(* given list in the store, each entry a rendering of a given object of     *)
(* that identity, and List() shows lines of those identities only.          *)

C2_ReplaceSwaps ==
    [][\A objs \in SeqsUpTo(Delivered(resource), MaxReplace) :
          Replace(objs) /\ ~panicked' =>
             /\ DOMAIN metrics' = Ids(objs)
             /\ \A k \in DOMAIN metrics' :
                   \E i \in DOMAIN objs :
                      /\ Id(objs[i]) = k
                      /\ metrics'[k] \in Renderings(resource, families, objs[i])
             /\ Blocks(resource, StoreList(headers', metrics')) \subseteq Ids(objs)]_vars

\* a Replace with two objects of different identities has returned
C2_Witness ==
    /\ lastOp.op = "Replace"
    /\ ~panicked
    /\ Cardinality(Ids(lastOp.objs)) = 2
    /\ DOMAIN metrics = Ids(lastOp.objs)

(* C4: no family name on the blacklist appears in List(), neither in a      *)
(* HELP/TYPE header nor as the metric name of a sample line.                *)

C4_BlacklistedNeverListed ==
    ~whiteBlackList.isWhiteList =>
        \A n \in whiteBlackList.list :
            /\ n \notin HeaderNames(StoreList(headers, metrics))
            /\ n \notin LineNames(StoreList(headers, metrics))

(* C5: an Update(obj) that repeats the Update(obj) before it leaves the     *)
(* List() output as it was after the first.                                 *)

C5_UpdateIdempotent ==
    [][\A o \in Delivered(resource) :
          lastOp = Op("Update", <<o>>) /\ Update(o) /\ ~panicked' =>
             StoreList(headers', metrics') = StoreList(headers, metrics)]_vars

(* C6: Add(obj) and Update(obj) have the same results in every store state, *)
(* and a call that returns has overwritten the entry of obj's identity with *)
(* a rendering of obj and left every other entry alone.                     *)

Overwritten(m, id, entry) ==
    [k \in DOMAIN m \cup {id} |-> IF k = id THEN entry ELSE m[k]]

C6_AddUpdateSame ==
    [][\A o \in Delivered(resource) :
          /\ {StoreAdd(metrics, Id(o), e) : e \in Renderings(resource, families, o)}
               = {StoreUpdate(metrics, Id(o), e) : e \in Renderings(resource, families, o)}
          /\ (Add(o) \/ Update(o)) /\ ~panicked' =>
                \E e \in Renderings(resource, families, o) :
                   metrics' = Overwritten(metrics, Id(o), e)]_vars

\* an Update has returned and the store holds another identity as well
C6_Witness ==
    /\ lastOp.op = "Update"
    /\ ~panicked
    /\ Id(lastOp.objs[1]) \in DOMAIN metrics
    /\ Cardinality(DOMAIN metrics) = 2

(* C8: when the transform of one family fails for an object of the store's  *)
(* type, Add/Update still returns, and the entry holds the lines of every   *)
(* other family and none of the failing one.                                *)

\* the families compose would return were a failing generator to yield no sample
RECURSIVE Isolated(_, _, _)
Isolated(r, fams, obj) ==
    IF fams = <<>> THEN {<<>>}
    ELSE {<<h.family>> \o t : h \in GenerateFunc(r, Head(fams), obj),
                              t \in Isolated(r, Tail(fams), obj)}

C8_FailureIsolated ==
    lastOp.op \in {"Add", "Update"} /\ lastOp.objs[1].Kind = ExpectedKind(resource) =>
        /\ ~panicked
        /\ Id(lastOp.objs[1]) \in DOMAIN metrics
        /\ metrics[Id(lastOp.objs[1])] \in
              {Render(fs) : fs \in Isolated(resource, families, lastOp.objs[1])}

(* C9: an object of another type delivered to Add/Update is skipped: the    *)
(* mapping is unchanged and the process goes on.                            *)

C9_MismatchSkipped ==
    [][\A o \in Delivered(resource) :
          (Add(o) \/ Update(o)) /\ o.Kind # ExpectedKind(resource) =>
             metrics' = metrics /\ ~panicked']_vars

----------------------------------------------------------------------------
(* C3: with Add(v1) and Update(v2) racing, every entry the store holds is   *)
(* a complete rendering of the object one of the tasks wrote to that        *)
(* identity, and so is every block a scrape has listed; once both writes    *)
(* are applied the identities of both are in the store.                     *)

\* the complete renderings the tasks may write to identity k
TaskRenderings(k) ==
    UNION {Renderings(resource, families, tasks[t].obj) :
              t \in {u \in DOMAIN tasks : Id(tasks[u].obj) = k}}

\* the stores that hold nothing but complete renderings of the tasks' objects
CompleteStores ==
    UNION {{m \in [D -> UNION {TaskRenderings(k) : k \in D}] :
               \A k \in D : m[k] \in TaskRenderings(k)} :
              D \in SUBSET {Id(tasks[t].obj) : t \in DOMAIN tasks}}

C3_OneWriteWins ==
    /\ \A k \in DOMAIN metrics : metrics[k] \in TaskRenderings(k)
    /\ listed # NoList => \E m \in CompleteStores : listed = StoreList(headers, m)
    /\ (\A t \in DOMAIN tasks : tasks[t].pc = "done") =>
          \A t \in DOMAIN tasks : Id(tasks[t].obj) \in DOMAIN metrics

\* both tasks have written the same identity, with different renderings
C3_Witness ==
    /\ \A t \in DOMAIN tasks : tasks[t].pc = "done"
    /\ Id(tasks[1].obj) = Id(tasks[2].obj)
    /\ tasks[1].entry # tasks[2].entry
    /\ metrics[Id(tasks[1].obj)] = tasks[1].entry

----------------------------------------------------------------------------
(* C7 as stated: whenever a reflector of a resource type has been started,  *)
(* the type's store exists with its header block and its collector has      *)
(* been handed to the scrape path.                                          *)

StoreBuilt(r) ==
    /\ r \in DOMAIN stores
    /\ stores[r].headers =
          extractMetricFamilyHeaders(
              filterMetricFamilies(builder.whiteBlackList, MetricFamilies(r)))

C7_RegisteredBeforeStart ==
    \A x \in reflectors : StoreBuilt(x[1]) /\ x[1] \in registered

(* C7, amended: whenever a reflector of a resource type has been started,   *)
(* the type's store exists with its header block; the collector that wraps  *)
(* the store is returned, and handed to the scrape path, only after the     *)
(* reflectors of all the type's namespaces have been started.               *)
C7_StoreBeforeStart ==
    /\ \A x \in reflectors : StoreBuilt(x[1])
    /\ \A r \in Range(collectors) \cup registered :
          /\ StoreBuilt(r)
          /\ \A n \in Range(builder.namespaces) : <<r, n>> \in reflectors

\* a reflector runs for a type whose collector is not returned yet
C7_Witness ==
    /\ bpc = "reflectorPerNamespace"
    /\ nsIdx = 2
    /\ <<Current, builder.namespaces[1]>> \in reflectors
    /\ Current \notin Range(collectors)
    /\ stores[Current].headers # <<>>

----------------------------------------------------------------------------
(* C10: with a whitelist and a blacklist both configured, main ends in      *)
(* glog.Fatal at its validation, before anything is built: no informer or   *)
(* reflector is started, no store constructed, no collector registered and  *)
(* no server started. (--version and --help exit before the validation.)    *)
C10_BothListsFatal ==
    opts.MetricWhitelist # {} /\ opts.MetricBlacklist # {} =>
        /\ mpc \in {"start", "defaults", "validate", "fatal", "exit"}
        /\ mpc = "exit" => opts.Version \/ opts.Help
        /\ informers = {} /\ registry = {} /\ serving = {}
        /\ DOMAIN stores = {} /\ reflectors = {} /\ registered = {}

\* main has ended fatally with both lists set
C10_Witness ==
    /\ mpc = "fatal"
    /\ opts.MetricWhitelist # {}
    /\ opts.MetricBlacklist # {}

----------------------------------------------------------------------------
(* C11: with an enabled collector name that is not a known resource type,   *)
(* startup ends fatally: main never gets past registerCollectors to serve   *)
(* the metrics of the other collectors.                                     *)
C11_UnknownNameFatal ==
    "pods" \in EnabledCollectors(opts) => mpc \notin {"metrics", "serving"}

----------------------------------------------------------------------------
(* C12: in the entry an Add or Update has written for an object, the        *)
(* created-timestamp family has exactly one line, whose value is the        *)
(* creation time in Unix seconds, when the creation timestamp is set, and   *)
(* no line when it is unset (or the family is filtered out).                *)

CreatedName(r) ==
    CASE r = "deploymentConfigs" -> "openshift_deploymentconfig_created"
      [] r = "buildconfigs" -> "openshift_buildconfig_created"
      [] r = "builds" -> "openshift_build_created"
      [] OTHER -> "openshift_clusterresourcequota_created"

\* the lines of an entry that carry the metric name n
LinesNamed(entry, n) == SelectSeq(entry, LAMBDA l : l.name = n)

FamilyNames(fams) == {fams[i].Name : i \in DOMAIN fams}

C12_CreatedTimestamp ==
    lastOp.op \in {"Add", "Update"} /\ ~panicked =>
        LET o == lastOp.objs[1]
            ls == LinesNamed(metrics[Id(o)], CreatedName(resource))
        IN  IF CreatedName(resource) \in FamilyNames(families) /\ ~o.CreationTimestamp.zero
            THEN /\ Len(ls) = 1
                 /\ ls[1].value = o.CreationTimestamp.unix * Thousand
                 /\ LineIdentity(resource, ls[1]) = Id(o)
            ELSE ls = <<>>

\* an object without creation timestamp has been written with the family included
C12_Witness ==
    /\ lastOp.op \in {"Add", "Update"}
    /\ ~panicked
    /\ CreatedName(resource) \in FamilyNames(families)
    /\ lastOp.objs[1].CreationTimestamp.zero
    /\ metrics[Id(lastOp.objs[1])] # <<>>
    /\ LinesNamed(metrics[Id(lastOp.objs[1])], CreatedName(resource)) = <<>>

----------------------------------------------------------------------------
(* C13: once the context is cancelled, every reflector that was started     *)
(* returns (or the process has ended in a panic), and a reflector that has  *)
(* returned applies no write to its store.                                  *)

\* reflector x writes to its store
ReflectorWrite(x) ==
    \/ \E objs \in Listings(x[1], x[2]) : ReflectorReplace(x, objs)
    \/ \E o \in Watched(x[1], x[2]) : ReflectorAdd(x, o)
    \/ \E o \in Watched(x[1], x[2]) : ReflectorDelete(x, o)

C13_StopTerminates ==
    /\ (ctx = "done") ~> (panicked \/ reflectors \subseteq terminated)
    /\ [][\A x \in terminated : x \in terminated' /\ ~ReflectorWrite(x)]_vars

\* after the stop signal every reflector has returned, with entries in a store
C13_Witness ==
    /\ ctx = "done"
    /\ ~panicked
    /\ Cardinality(reflectors) >= 2
    /\ reflectors \subseteq terminated
    /\ \E r \in DOMAIN stores : DOMAIN stores[r].metrics # {}

----------------------------------------------------------------------------
(* C14: the header block of a store has one entry per descriptor of the     *)
(* resource type that passed the filter, in descriptor order, and no store  *)
(* operation changes it.                                                    *)

\* the positions of the descriptors of resource type r that pass filter l
Passing(l, r) ==
    {i \in DOMAIN MetricFamilies(r) : IsIncluded(l, MetricFamilies(r)[i].Name)}

\* header i stands for the i-th passing descriptor
InDescriptorOrder(h, l, r) ==
    \A i \in DOMAIN h :
        \E p \in Passing(l, r) :
            /\ Cardinality({q \in Passing(l, r) : q <= p}) = i
            /\ h[i].help = MetricFamilies(r)[p].Help
            /\ h[i].name = MetricFamilies(r)[p].Name

C14_HeaderBlockFixed ==
    /\ [](/\ Len(headers) = Cardinality(Passing(whiteBlackList, resource))
          /\ InDescriptorOrder(headers, whiteBlackList, resource))
    /\ [][headers' = headers]_vars

\* a filtered store has been written, replaced and listed
C14_Witness ==
    /\ lastOp.op = "List"
    /\ DOMAIN metrics # {}
    /\ Len(headers) > 0
    /\ Len(headers) < Len(MetricFamilies(resource))
    /\ listed.header = headers

----------------------------------------------------------------------------
(* C16: List() calls the composed generator for no object and leaves the    *)
(* mapping and the header block as they were; only Add, Update and Replace  *)
(* call it, and one that returns has called it once per object written.     *)
C16_ListInvokesNothing ==
    [][/\ List => invoked' = <<>> /\ metrics' = metrics /\ headers' = headers
       /\ invoked' # <<>> => lastOp'.op \in {"Add", "Update", "Replace"}
       /\ lastOp'.op \in {"Add", "Update", "Replace"} /\ ~panicked' =>
             invoked' = lastOp'.objs]_vars

\* a store of two entries has been listed
C16_Witness ==
    /\ lastOp.op = "List"
    /\ invoked = <<>>
    /\ Cardinality(DOMAIN metrics) = 2
    /\ listed.body # <<>>

----------------------------------------------------------------------------
(* C17: when Build returns, every enabled resource type has its store and   *)
(* exactly the reflectors of the Builder's namespaces - the one of the      *)
(* all-namespaces sentinel when the list is the default one - each bound    *)
(* to the store of its type; no store is constructed twice and no           *)
(* reflector started twice.                                                 *)

ReflectorsOf(r) == {x \in reflectors : x[1] = r}

----------------------------------------------------------------------------
(* C19: for every object of the store's type the composed generator is      *)
(* called with, it returns one family per filtered descriptor, and every    *)
(* sample has the default labels of the resource type in front, with the    *)
(* object's namespace and name as their values, and as many label values    *)
(* as label keys.                                                           *)

DefaultLabels(r) ==
    CASE r = "deploymentConfigs" -> descDeploymentLabelsDefaultLabels
      [] r = "buildconfigs" -> descBuildConfigLabelsDefaultLabels
      [] r = "builds" -> descBuildLabelsDefaultLabels
      [] OTHER -> descClusterResourceQuotaLabelsDefaultLabels

DefaultValues(r, o) ==
    IF r = "clusterresourcequotas" THEN <<o.Name>> ELSE <<o.Namespace, o.Name>>

DefaultLabelsFirst(r, o, m) ==
    /\ Len(m.LabelKeys) = Len(m.LabelValues)
    /\ Len(m.LabelKeys) >= Len(DefaultLabels(r))
    /\ SubSeq(m.LabelKeys, 1, Len(DefaultLabels(r))) = DefaultLabels(r)
    /\ SubSeq(m.LabelValues, 1, Len(DefaultLabels(r))) = DefaultValues(r, o)

\* what the claim asks of the outcome c of the composed generator for object o
OneFamilyPerDescriptor(r, fams, o, c) ==
    /\ Len(c.families) = Len(fams)
    /\ \A i \in DOMAIN c.families :
          \A j \in DOMAIN c.families[i] : DefaultLabelsFirst(r, o, c.families[i][j])

C19_FamiliesAndDefaultLabels ==
    \A i \in DOMAIN invoked :
        invoked[i].Kind = ExpectedKind(resource) =>
            \A c \in composeMetricGenFuncs(resource, families, invoked[i]) :
                c.ok /\ OneFamilyPerDescriptor(resource, families, invoked[i], c)

----------------------------------------------------------------------------
(* C20: in the entry an Add or Update has written for a deployment config,  *)
(* the spec_paused family has exactly one line, with value 1 when Paused is *)
(* true and 0 when it is false.                                             *)
C20_PausedOneOrZero ==
    /\ resource = "deploymentConfigs"
    /\ lastOp.op \in {"Add", "Update"}
    /\ ~panicked
    /\ "openshift_deploymentconfig_spec_paused" \in FamilyNames(families)
    => LET o == lastOp.objs[1]
           ls == LinesNamed(metrics[Id(o)], "openshift_deploymentconfig_spec_paused")
       IN  /\ Len(ls) = 1
           /\ ls[1].value = IF o.Paused THEN 1 * Thousand ELSE 0
           /\ LineIdentity(resource, ls[1]) = Id(o)

\* a paused deployment config has been written
C20_Witness ==
    /\ resource = "deploymentConfigs"
    /\ lastOp.op \in {"Add", "Update"}
    /\ ~panicked
    /\ lastOp.objs[1].Paused
    /\ \E i \in DOMAIN metrics[Id(lastOp.objs[1])] :
          /\ metrics[Id(lastOp.objs[1])][i].name = "openshift_deploymentconfig_spec_paused"
          /\ metrics[Id(lastOp.objs[1])][i].value = Thousand

----------------------------------------------------------------------------
(* C21: in the entry an Add or Update has written for a cluster resource    *)
(* quota, the quota family has exactly one line per resource of the hard    *)
(* totals, with type "hard", and one per resource of the used totals, with  *)
(* type "used", each with the value milli-value / 1000.                     *)

QuotaName == "openshift_clusterresourcequota"

\* the lines of ls that carry resource res and type t after the default label
TotalsLines(ls, o, res, t) ==
    SelectSeq(ls, LAMBDA l :
        l.labels = << <<"name", o.Name>>, <<"resource", res>>, <<"type", t>> >>)

C21_QuotaMilliValue ==
    /\ resource = "clusterresourcequotas"
    /\ lastOp.op \in {"Add", "Update"}
    /\ ~panicked
    /\ QuotaName \in FamilyNames(families)
    => LET o == lastOp.objs[1]
           ls == LinesNamed(metrics[Id(o)], QuotaName)
       IN  /\ Len(ls) = Cardinality(DOMAIN o.Hard) + Cardinality(DOMAIN o.Used)
           /\ \A res \in DOMAIN o.Hard :
                 /\ Len(TotalsLines(ls, o, res, "hard")) = 1
                 /\ TotalsLines(ls, o, res, "hard")[1].value * Thousand
                       = Float64(o.Hard[res])
           /\ \A res \in DOMAIN o.Used :
                 /\ Len(TotalsLines(ls, o, res, "used")) = 1
                 /\ TotalsLines(ls, o, res, "used")[1].value * Thousand
                       = Float64(o.Used[res])

\* a quota with two hard totals, one of them 1.5, and one used total is written
C21_Witness ==
    /\ resource = "clusterresourcequotas"
    /\ lastOp.op \in {"Add", "Update"}
    /\ ~panicked
    /\ Cardinality(DOMAIN lastOp.objs[1].Hard) = 2
    /\ Cardinality(DOMAIN lastOp.objs[1].Used) = 1
    /\ Len(LinesNamed(metrics[Id(lastOp.objs[1])], QuotaName)) = 3
    /\ \E i \in DOMAIN metrics[Id(lastOp.objs[1])] :
          /\ metrics[Id(lastOp.objs[1])][i].name = QuotaName
          /\ metrics[Id(lastOp.objs[1])][i].value = 1500

----------------------------------------------------------------------------
(* C22: in a List() output the lines of one object are contiguous, and      *)
(* within the object they stand in descriptor order: the output is grouped  *)
(* by object, not by family.                                                *)

\* the position, among the descriptors of resource type r, of the descriptor
\* whose generator gives its samples the metric name n
DescriptorOf(r, n) ==
    CHOOSE p \in DOMAIN MetricFamilies(r) :
        \/ MetricFamilies(r)[p].Name = n
        \/ MetricFamilies(r)[p].Name = "" /\ n = descClusterResourceQuotaLabelsName

C22_GroupedByObject ==
    LET body == listed.body
        id(i) == LineIdentity(resource, body[i])
    IN  \A i, j \in DOMAIN body :
            i < j /\ id(i) = id(j) =>
                /\ \A k \in i..j : id(k) = id(i)
                /\ DescriptorOf(resource, body[i].name)
                      <= DescriptorOf(resource, body[j].name)

\* a listed store of two objects: two families of one object stand side by
\* side, and the lines of one family are apart
C22_Witness ==
    /\ lastOp.op = "List"
    /\ Cardinality(Blocks(resource, listed)) = 2
    /\ \E i, j \in DOMAIN listed.body :
          /\ i + 1 < j
          /\ listed.body[i].name = listed.body[j].name
          /\ LineIdentity(resource, listed.body[i]) # LineIdentity(resource, listed.body[j])
          /\ listed.body[i + 1].name # listed.body[i].name
          /\ LineIdentity(resource, listed.body[i + 1]) = LineIdentity(resource, listed.body[i])

----------------------------------------------------------------------------
(* C23: with the reflectors of two namespaces on one store, the full list   *)
(* of one reflector, applied as Replace, removes no entry of the other      *)
(* namespace: once both have listed, the store holds the objects of both.   *)

C23_ResyncKeepsOthers ==
    [][\A x \in reflectors :
          \A objs \in Listings(x[1], x[2]) :
             /\ ReflectorReplace(x, objs)
             /\ ~panicked'
             /\ x[1] # "clusterresourcequotas"
             /\ x[2] # NamespaceAll
             => \A k \in DOMAIN stores[x[1]].metrics :
                   k[1] # x[2] => k \in DOMAIN stores'[x[1]].metrics]_vars

----------------------------------------------------------------------------
(* C24: an Add or Update of a Build returns whatever timestamps are unset,  *)
(* and the entry it writes has no openshift_build_started line when the     *)
(* start timestamp is unset and no openshift_build_complete line when the   *)
(* completion timestamp is unset.                                           *)

C24_UnsetTimestampSuppressed ==
    /\ resource = "builds"
    /\ lastOp.op \in {"Add", "Update"}
    /\ lastOp.objs[1].Kind = "Build"
    => LET o == lastOp.objs[1]
       IN  /\ ~panicked
           /\ IsNil(o.StartTimestamp) =>
                 LinesNamed(metrics[Id(o)], "openshift_build_started") = <<>>
           /\ IsNil(o.CompletionTimestamp) =>
                 LinesNamed(metrics[Id(o)], "openshift_build_complete") = <<>>

----------------------------------------------------------------------------
(* C25: when Build ends in the fatal error of an unknown collector name, no *)
(* reflector has been started for any enabled collector: every name is     *)
(* looked up before the first background task.                              *)

C25_ValidationPrecedesStart ==
    bpc = "fatal" => reflectors = {}

----------------------------------------------------------------------------
(* C26: every sample a descriptor's generator produces carries the          *)
(* descriptor's family name, the name the filter tests and the header       *)
(* shows.                                                                   *)

C26_FamilyNameIsSampleName ==
    \A i \in DOMAIN invoked :
        invoked[i].Kind = ExpectedKind(resource) =>
            \A c \in composeMetricGenFuncs(resource, families, invoked[i]) :
                c.ok =>
                    \A f \in DOMAIN c.families :
                        \A j \in DOMAIN c.families[f] :
                            c.families[f][j].Name = families[f].Name

----------------------------------------------------------------------------
(* C27: in the entry an Add or Update has written for a Build, the          *)
(* status-phase family has exactly seven lines, one per phase label, each   *)
(* with value 0 or 1; exactly one is 1 when the build's phase is one of the *)
(* seven, and none is otherwise.                                            *)

PhaseName == "openshift_build_status_phase"

C27_SevenPhaseSamples ==
    /\ resource = "builds"
    /\ lastOp.op \in {"Add", "Update"}
    /\ ~panicked
    /\ PhaseName \in FamilyNames(families)
    => LET o == lastOp.objs[1]
           ls == LinesNamed(metrics[Id(o)], PhaseName)
           ones == {i \in DOMAIN ls : ls[i].value = 1 * Thousand}
       IN  /\ Len(ls) = 7
           /\ \A p \in {"complete", "cancelled", "new", "pending", "running",
                         "failed", "error"} :
                 Cardinality({i \in DOMAIN ls :
                                 ls[i].labels[3] = <<"build_phase", p>>}) = 1
           /\ \A i \in DOMAIN ls :
                 /\ ls[i].value \in {0, 1 * Thousand}
                 /\ LineIdentity(resource, ls[i]) = Id(o)
           /\ Cardinality(ones) =
                 IF o.Phase \in {"Complete", "Cancelled", "New", "Pending", "Running",
                                 "Failed", "Error"}
                 THEN 1 ELSE 0

\* a build without phase has been written: seven lines, all 0
C27_Witness ==
    /\ resource = "builds"
    /\ lastOp.op \in {"Add", "Update"}
    /\ ~panicked
    /\ lastOp.objs[1].Phase = ""
    /\ Len(LinesNamed(metrics[Id(lastOp.objs[1])], PhaseName)) = 7
    /\ \A i \in DOMAIN metrics[Id(lastOp.objs[1])] :
          metrics[Id(lastOp.objs[1])][i].name = PhaseName =>
             metrics[Id(lastOp.objs[1])][i].value = 0

----------------------------------------------------------------------------
(* C28: a Collect whose store.List() returns an error adds exactly one to   *)
(* the scrape-error counter of the resource and sends no metric; a Collect  *)
(* whose List() succeeds leaves the counter as it was and sends metrics for *)
(* every listed deployment config.                                          *)

\* the deployment configs some metric on the channel belongs to
Sent(c) == {<<c[i].LabelValues[1], c[i].LabelValues[2]>> : i \in DOMAIN c}

C28_ScrapeErrorCounted ==
    [][\A res \in ListResults :
          Collect(res) =>
             IF res.err
             THEN /\ ScrapeErrorTotalMetric' = ScrapeErrorTotalMetric + 1
                  /\ ch' = <<>>
             ELSE /\ ScrapeErrorTotalMetric' = ScrapeErrorTotalMetric
                  /\ Sent(ch') = Ids(res.list)]_vars

\* a failed scrape after a scrape that listed two deployment configs
C28_Witness ==
    /\ ds.err
    /\ ScrapeErrorTotalMetric = 1
    /\ ch = <<>>
    /\ ResourcesPerScrapeMetric = <<2>>

----------------------------------------------------------------------------
(* C29: Build on a Builder that was given no whiteBlackList panics on       *)
(* entry: whatever collectors are enabled, it constructs no store, starts   *)
(* no reflector and returns no collector.                                   *)

C29_NilFilterAborts ==
    builder.whiteBlackListNil =>
        /\ bpc \in {"new", "panic"}
        /\ DOMAIN stores = {}
        /\ reflectors = {}
        /\ collectors = <<>>

\* Build has panicked for a Builder with two known collectors and two namespaces
C29_Witness ==
    /\ bpc = "panic"
    /\ builder.whiteBlackListNil
    /\ Len(builder.enabledCollectors) = 2
    /\ Range(builder.enabledCollectors) \subseteq availableCollectors
    /\ Len(builder.namespaces) = 2
    /\ DOMAIN stores = {}
    /\ reflectors = {}

====
